---- MODULE Spec2Model ----
(***************************************************************************)
(* Variant cache and session controller of the TASTYBOX mock-up app        *)
(* (the App component): handleStart, handleStartOver, handleAngleSelect,   *)
(* the continuations of their awaited generation calls, and the derived    *)
(* displayImageUrl.                                                        *)
(*                                                                         *)
(* Every handler runs to its first await (or to its return) in one step;   *)
(* the code after the await (try / catch / finally) runs in a second step  *)
(* when the promise settles.  The calls that are waiting for the provider  *)
(* are the records of `requests`; each keeps the values its closure        *)
(* captured (angleInstruction, prevAngleIndex).                            *)
(***************************************************************************)
EXTENDS Integers, Sequences, FiniteSets, TLC

VARIABLES
    selectedBox,        \* useState<BoxItem | null>        (baseImageRef)
    logoFile,           \* useState<File | null>           (logoRef)
    generatedImages,    \* useState<GeneratedImageHistory> (cache), insertion ordered
    currentAngleIndex,  \* useState(0)                     (selectedView)
    isLoading,          \* useState(false)                 (pending)
    loadingMessage,     \* useState('')                    (pendingMessage)
    error,              \* useState<string | null>         (lastError)
    requests,           \* generation calls awaiting the provider
    issued,             \* number of generation calls made so far
    lastOp,             \* history: the call or completion that produced this state
                        \* (op, the view index it selected, the request it concerns)
    sessionIssued,      \* history: the generation calls made since the last Reset
    pc,                 \* "app", or the step of a stand-alone run of the service helpers
    response,           \* the GenerateContentResponse given to handleApiResponse
    reply,              \* what handleApiResponse returned or threw
    dataUrl,            \* the string given to dataUrlToParts
    parts               \* what dataUrlToParts returned or threw

app == <<selectedBox, logoFile, generatedImages, currentAngleIndex, isLoading,
         loadingMessage, error, requests, issued, lastOp, sessionIssued>>

service == <<pc, response, reply, dataUrl, parts>>

vars == <<app, service>>

ctl == <<selectedBox, logoFile, generatedImages, currentAngleIndex, isLoading,
         loadingMessage, error>>

-----------------------------------------------------------------------------
(* Bounds *)

\* generation calls issued in one behaviour
MaxIssued == 3

\* how many indices past the end of ANGLE_INSTRUCTIONS a caller may pass
ExtraIndices == 1

-----------------------------------------------------------------------------
(* Values *)

Null == "null"
Undefined == <<"undefined">>
NoMessage == <<>>

ANGLE_INSTRUCTIONS ==
    << "Vista Frontal", "Vista en Angulo", "Vista Superior",
       "Primer Plano del Logo", "En un Entorno de Lujo" >>

NumAngles == Len(ANGLE_INSTRUCTIONS)

\* ANGLE_INSTRUCTIONS[i] with a 0-based index; past the end JavaScript yields
\* undefined, which as a property key is the string "undefined"
AngleAt(i) ==
    IF i + 1 \in DOMAIN ANGLE_INSTRUCTIONS THEN ANGLE_INSTRUCTIONS[i + 1]
    ELSE "undefined"

\* the only box the start screen offers (defaultBox), by its id
Boxes == {"cardboard-box"}
Logos == {"logoA", "logoB"}

BoxUrl(b) == <<"url", b>>
BoxName(b) == <<"name", b>>

\* the data URL the generation call with this number resolves to
ImageOf(id) == <<"data", id>>

IndexInputs == 0 .. (NumAngles - 1 + ExtraIndices)

-----------------------------------------------------------------------------
(* GeneratedImageHistory: a JavaScript object with string keys, modelled as *)
(* the sequence of its [key, value] entries in insertion order.             *)

Keys(h) == {h[i].key : i \in DOMAIN h}

Has(h, k) == k \in Keys(h)

\* h[k]
Get(h, k) ==
    IF Has(h, k) THEN h[CHOOSE i \in DOMAIN h : h[i].key = k].value
    ELSE Undefined

\* Object.values(h)[0]
FirstValue(h) == IF h = <<>> THEN Undefined ELSE h[1].value

\* Put that forgets the spread: the new entry replaces the whole object
PutReplace(h, k, v) == <<[key |-> k, value |-> v]>>

\* {...h, [k]: v}: an existing key keeps its position, a new key goes last
Put(h, k, v) ==
    IF Has(h, k)
    THEN [i \in DOMAIN h |-> IF h[i].key = k THEN [key |-> k, value |-> v] ELSE h[i]]
    ELSE Append(h, [key |-> k, value |-> v])

\* CacheHit that never finds the entry: every switch regenerates
CacheHitNever(h, k) == FALSE

\* `if (generatedImages[angleInstruction])`: a stored data URL is truthy
CacheHit(h, k) == Get(h, k) # Undefined

\* a ?? b
Coalesce(a, b) == IF a # Undefined THEN a ELSE b

\* selectedBox?.url
OptBoxUrl(b) == IF b = Null THEN Undefined ELSE BoxUrl(b)

\* displayImageUrl without the fall-back to the first generated variant
displayImageUrlNoFallback ==
    Coalesce(Get(generatedImages, AngleAt(currentAngleIndex)), OptBoxUrl(selectedBox))

displayImageUrl ==
    Coalesce(Get(generatedImages, AngleAt(currentAngleIndex)),
             Coalesce(FirstValue(generatedImages), OptBoxUrl(selectedBox)))

availableAngleKeys == [i \in DOMAIN generatedImages |-> generatedImages[i].key]

-----------------------------------------------------------------------------
(* Values of the service helpers when they are not in use *)

NoResponse == [blockReason |-> Null, candidates |-> <<>>]
NoReply == [kind |-> "none", url |-> <<>>, reason |-> Null]
NoParts == [kind |-> "none", mimeType |-> <<>>, data |-> <<>>]

-----------------------------------------------------------------------------
(* Requests and history records *)

\* the pending continuation of a handler: what its closure captured, and (as
\* history) the state the handler saw when it was called
Request(id, op, angle, prev, base) ==
    [ id |-> id, op |-> op, angleInstruction |-> angle, prevAngleIndex |-> prev,
      base |-> base,
      sent |-> 0,
      cacheAt |-> generatedImages,
      sessionAt |-> <<selectedBox, logoFile>> ]

Op(op, arg, id) == [op |-> op, arg |-> arg, id |-> id]

\* history: a generation call and the base/logo pairing it was made for
Issue(id, op, box, logo) == [id |-> id, op |-> op, box |-> box, logo |-> logo]

-----------------------------------------------------------------------------
\* the state of App after its first render
AppInit ==
    /\ selectedBox = Null
    /\ logoFile = Null
    /\ generatedImages = <<>>
    /\ currentAngleIndex = 0
    /\ isLoading = FALSE
    /\ loadingMessage = NoMessage
    /\ error = Null
    /\ requests = {}
    /\ issued = 0
    /\ lastOp = Op("init", 0, 0)
    /\ sessionIssued = {}

\* handleStart up to `await generateLogoOnBoxImage(box, logo)`
handleStart(box, logo) ==
    /\ issued < MaxIssued
    /\ selectedBox' = box
    /\ logoFile' = logo
    /\ error' = Null
    /\ isLoading' = TRUE
    /\ loadingMessage' = <<"Colocando tu logo en la", BoxName(box)>>
    /\ issued' = issued + 1
    /\ requests' = requests \cup
          {Request(issued + 1, "start", AngleAt(0), 0, BoxUrl(box))}
    /\ lastOp' = Op("start", 0, issued + 1)
    /\ sessionIssued' = sessionIssued \cup {Issue(issued + 1, "start", box, logo)}
    /\ UNCHANGED <<generatedImages, currentAngleIndex>>

\* handleStart after the await: the try body and finally
StartResolved(r) ==
    /\ r \in requests
    /\ r.op = "start"
    /\ r.sent = 1
    /\ requests' = requests \ {r}
    /\ generatedImages' = <<[key |-> r.angleInstruction, value |-> ImageOf(r.id)]>>
    /\ currentAngleIndex' = 0
    /\ isLoading' = FALSE
    /\ loadingMessage' = NoMessage
    /\ lastOp' = Op("ok", 0, r.id)
    /\ UNCHANGED <<selectedBox, logoFile, error, issued, sessionIssued>>

\* handleStart after the await: catch and finally
StartRejected(r) ==
    /\ r \in requests
    /\ r.op = "start"
    /\ requests' = requests \ {r}
    /\ error' = "No se pudo generar la maqueta"
    /\ selectedBox' = Null
    /\ logoFile' = Null
    /\ isLoading' = FALSE
    /\ loadingMessage' = NoMessage
    /\ lastOp' = Op("fail", 0, r.id)
    /\ UNCHANGED <<generatedImages, currentAngleIndex, issued, sessionIssued>>

\* handleStartOver that leaves the generated variants in place
handleStartOverKeepsImages ==
    /\ selectedBox' = Null
    /\ logoFile' = Null
    /\ currentAngleIndex' = 0
    /\ isLoading' = FALSE
    /\ loadingMessage' = NoMessage
    /\ error' = Null
    /\ lastOp' = Op("reset", 0, 0)
    /\ sessionIssued' = {}
    /\ UNCHANGED <<generatedImages, requests, issued>>

\* inside generateLogoOnBoxImage / generateAngleVariation: the inputs were
\* turned into parts and `ai.models.generateContent` is called, once
generateContent(r) ==
    /\ r \in requests
    /\ r.sent = 0
    /\ requests' = (requests \ {r}) \cup {[r EXCEPT !.sent = 1]}
    /\ lastOp' = Op("send", 0, r.id)
    /\ UNCHANGED <<ctl, issued, sessionIssued>>

handleStartOver ==
    /\ selectedBox' = Null
    /\ logoFile' = Null
    /\ generatedImages' = <<>>
    /\ currentAngleIndex' = 0
    /\ isLoading' = FALSE
    /\ loadingMessage' = NoMessage
    /\ error' = Null
    /\ lastOp' = Op("reset", 0, 0)
    /\ sessionIssued' = {}
    /\ UNCHANGED <<requests, issued>>

\* AngleSelectIgnored without the `!selectedBox` test
AngleSelectIgnoredNoBoxTest(newIndex) ==
    isLoading \/ newIndex = currentAngleIndex

\* the early return of handleAngleSelect
AngleSelectIgnored(newIndex) ==
    isLoading \/ newIndex = currentAngleIndex \/ selectedBox = Null

\* handleAngleSelect up to its return or to `await generateAngleVariation(..)`
handleAngleSelect(newIndex) ==
    LET angleInstruction == AngleAt(newIndex)
        baseImageForAngleChange == FirstValue(generatedImages)
    IN  IF AngleSelectIgnored(newIndex)
        THEN /\ lastOp' = Op("selectIgnored", 0, 0)
             /\ UNCHANGED <<ctl, requests, issued, sessionIssued>>
        ELSE IF CacheHit(generatedImages, angleInstruction)
        THEN /\ currentAngleIndex' = newIndex
             /\ lastOp' = Op("selectHit", newIndex, 0)
             /\ UNCHANGED <<selectedBox, logoFile, generatedImages, isLoading,
                            loadingMessage, error, requests, issued, sessionIssued>>
        ELSE IF baseImageForAngleChange = Undefined
        THEN /\ lastOp' = Op("selectNoBase", 0, 0)
             /\ UNCHANGED <<ctl, requests, issued, sessionIssued>>
        ELSE /\ issued < MaxIssued
             /\ error' = Null
             /\ isLoading' = TRUE
             /\ loadingMessage' = <<"Cambiando la vista a", angleInstruction>>
             /\ currentAngleIndex' = newIndex
             /\ issued' = issued + 1
             /\ requests' = requests \cup
                   {Request(issued + 1, "angle", angleInstruction,
                            currentAngleIndex, baseImageForAngleChange)}
             /\ lastOp' = Op("selectMiss", newIndex, issued + 1)
             /\ sessionIssued' = sessionIssued \cup
                   {Issue(issued + 1, "angle", selectedBox, logoFile)}
             /\ UNCHANGED <<selectedBox, logoFile, generatedImages>>

\* handleAngleSelect after the await: the try body and finally
AngleResolved(r) ==
    /\ r \in requests
    /\ r.op = "angle"
    /\ r.sent = 1
    /\ requests' = requests \ {r}
    /\ generatedImages' = Put(generatedImages, r.angleInstruction, ImageOf(r.id))
    /\ isLoading' = FALSE
    /\ loadingMessage' = NoMessage
    /\ lastOp' = Op("ok", 0, r.id)
    /\ UNCHANGED <<selectedBox, logoFile, currentAngleIndex, error, issued, sessionIssued>>

\* AngleRejected that makes the generation call again instead of giving up
AngleRejectedRetries(r) ==
    /\ r \in requests
    /\ r.op = "angle"
    /\ requests' = (requests \ {r}) \cup {[r EXCEPT !.sent = 0]}
    /\ error' = "No se pudo cambiar la vista"
    /\ lastOp' = Op("fail", 0, r.id)
    /\ UNCHANGED <<selectedBox, logoFile, generatedImages, currentAngleIndex,
                   isLoading, loadingMessage, issued, sessionIssued>>

\* AngleRejected that unwinds the session the way a failed Start does
AngleRejectedUnwinds(r) ==
    /\ r \in requests
    /\ r.op = "angle"
    /\ requests' = requests \ {r}
    /\ error' = "No se pudo cambiar la vista"
    /\ currentAngleIndex' = r.prevAngleIndex
    /\ selectedBox' = Null
    /\ logoFile' = Null
    /\ isLoading' = FALSE
    /\ loadingMessage' = NoMessage
    /\ lastOp' = Op("fail", 0, r.id)
    /\ UNCHANGED <<generatedImages, issued, sessionIssued>>

\* AngleRejected without the finally block: the loading flag stays set
AngleRejectedStaysLoading(r) ==
    /\ r \in requests
    /\ r.op = "angle"
    /\ requests' = requests \ {r}
    /\ error' = "No se pudo cambiar la vista"
    /\ currentAngleIndex' = r.prevAngleIndex
    /\ lastOp' = Op("fail", 0, r.id)
    /\ UNCHANGED <<selectedBox, logoFile, generatedImages, isLoading,
                   loadingMessage, issued, sessionIssued>>

\* handleAngleSelect after the await: catch and finally
AngleRejected(r) ==
    /\ r \in requests
    /\ r.op = "angle"
    /\ requests' = requests \ {r}
    /\ error' = "No se pudo cambiar la vista"
    /\ currentAngleIndex' = r.prevAngleIndex
    /\ isLoading' = FALSE
    /\ loadingMessage' = NoMessage
    /\ lastOp' = Op("fail", 0, r.id)
    /\ UNCHANGED <<selectedBox, logoFile, generatedImages, issued, sessionIssued>>

\* the service helpers are not running on their own while the app runs
ServiceIdle ==
    /\ pc = "app"
    /\ response = NoResponse
    /\ reply = NoReply
    /\ dataUrl = <<>>
    /\ parts = NoParts

Init == AppInit /\ ServiceIdle

Start == \E box \in Boxes, logo \in Logos : handleStart(box, logo)
Reset == handleStartOver
SelectView == \E newIndex \in IndexInputs : handleAngleSelect(newIndex)
StartOk == \E r \in requests : StartResolved(r)
StartFail == \E r \in requests : StartRejected(r)
AngleOk == \E r \in requests : AngleResolved(r)
AngleFail == \E r \in requests : AngleRejected(r)
Send == \E r \in requests : generateContent(r)

Next ==
    \/ Start /\ UNCHANGED service
    \/ Reset /\ UNCHANGED service
    \/ SelectView /\ UNCHANGED service
    \/ Send /\ UNCHANGED service
    \/ StartOk /\ UNCHANGED service
    \/ StartFail /\ UNCHANGED service
    \/ AngleOk /\ UNCHANGED service
    \/ AngleFail /\ UNCHANGED service

\* a settled promise runs its continuation
Settle == (StartOk \/ StartFail \/ AngleOk \/ AngleFail) /\ UNCHANGED service

Spec == Init /\ [][Next]_vars

\* every generation call is eventually answered, with success or failure
LiveSpec == Spec /\ WF_vars(Settle)

-----------------------------------------------------------------------------
(* The service helpers (services/geminiService.ts), run on their own:       *)
(* handleApiResponse on a provider response, dataUrlToParts on a string,    *)
(* and dataUrlToPart on the data URL that handleApiResponse returned, as    *)
(* generateAngleVariation does with the cached base image.                  *)
(* Strings are sequences of one-character strings.                          *)

\* candidates in a response
MaxCandidates == 2
\* parts in a response, over all its candidates
MaxParts == 3
\* characters in a string given to dataUrlToParts
MaxUrlLen == 5
\* characters in the mimeType and in the data of an inline part
MaxFieldLen == 2

Strings(chars, n) == UNION {[1 .. k -> chars] : k \in 0 .. n}

SeqsUpTo(S, n) == UNION {[1 .. k -> S] : k \in 0 .. n}

UrlChars == {"x", ":", ";", ","}
MimeChars == {"i", ":", ";", ","}
DataChars == {"A", ","}

DataUrls == Strings(UrlChars, MaxUrlLen)

TextPart == [kind |-> "text", mimeType |-> <<>>, data |-> <<>>]
InlineData(m, d) == [kind |-> "inlineData", mimeType |-> m, data |-> d]

\* two well-formed images, told apart by their payload
ImagePartA == InlineData(<<"i">>, <<"A">>)
ImagePartB == InlineData(<<"i">>, <<"B">>)

FinishReasons == {Null, "STOP", "SAFETY"}
BlockReasons == {Null, "PROHIBITED_CONTENT"}

Candidate(fr, ps) == [finishReason |-> fr, parts |-> ps]

Response(br, cs) == [blockReason |-> br, candidates |-> cs]

\* the number of parts in a sequence of candidates
RECURSIVE PartCount(_)
PartCount(cs) ==
    IF cs = <<>> THEN 0 ELSE Len(Head(cs).parts) + PartCount(Tail(cs))

\* responses with one image whose mimeType and data are any strings
ImageResponses ==
    {Response(Null, <<Candidate("STOP", <<InlineData(m, d)>>)>>) :
        m \in Strings(MimeChars, MaxFieldLen), d \in Strings(DataChars, MaxFieldLen)}

\* "data:" and ";base64,"
DataPrefix == <<"d", "a", "t", "a", ":">>
Base64Mark == <<";", "b", "a", "s", "e", "6", "4", ",">>

\* `data:${mimeType};base64,${data}`
DataUrlOf(m, d) == DataPrefix \o m \o Base64Mark \o d

Image(url) == [kind |-> "image", url |-> url, reason |-> Null]
Thrown(kind, reason) == [kind |-> kind, url |-> <<>>, reason |-> reason]

IsInline(p) == p.kind = "inlineData"

\* FindInline that takes the last inline part of the candidate
FindInlineLast(ps) ==
    IF \E i \in DOMAIN ps : IsInline(ps[i])
    THEN ps[CHOOSE i \in DOMAIN ps :
                /\ IsInline(ps[i])
                /\ \A j \in (i + 1) .. Len(ps) : ~IsInline(ps[j])]
    ELSE TextPart

\* candidate.content?.parts?.find(part => part.inlineData)
FindInline(ps) ==
    IF \E i \in DOMAIN ps : IsInline(ps[i])
    THEN ps[CHOOSE i \in DOMAIN ps :
                /\ IsInline(ps[i])
                /\ \A j \in 1 .. (i - 1) : ~IsInline(ps[j])]
    ELSE TextPart

\* handleApiResponse that looks for an image before the block reason
handleApiResponseImageFirst(resp) ==
    LET cs == resp.candidates
        withImage == {c \in DOMAIN cs : IsInline(FindInline(cs[c].parts))}
        finishReason == IF cs = <<>> THEN Null ELSE cs[1].finishReason
    IN  IF withImage # {}
        THEN LET c == CHOOSE m \in withImage : \A n \in withImage : m <= n
                 imagePart == FindInline(cs[c].parts)
             IN  Image(DataUrlOf(imagePart.mimeType, imagePart.data))
        ELSE IF resp.blockReason # Null
        THEN Thrown("blocked", resp.blockReason)
        ELSE IF finishReason # Null /\ finishReason # "STOP"
        THEN Thrown("abnormal", finishReason)
        ELSE Thrown("noImage", Null)

handleApiResponse(resp) ==
    LET cs == resp.candidates
        withImage == {c \in DOMAIN cs : IsInline(FindInline(cs[c].parts))}
        finishReason == IF cs = <<>> THEN Null ELSE cs[1].finishReason
    IN  IF resp.blockReason # Null
        THEN Thrown("blocked", resp.blockReason)
        ELSE IF withImage # {}
        THEN LET c == CHOOSE m \in withImage : \A n \in withImage : m <= n
                 imagePart == FindInline(cs[c].parts)
             IN  Image(DataUrlOf(imagePart.mimeType, imagePart.data))
        ELSE IF finishReason # Null /\ finishReason # "STOP"
        THEN Thrown("abnormal", finishReason)
        ELSE Thrown("noImage", Null)

\* the position of the first c in s at or after position from, 0 if none
RECURSIVE IndexFrom(_, _, _)
IndexFrom(s, c, from) ==
    IF from > Len(s) THEN 0
    ELSE IF s[from] = c THEN from
    ELSE IndexFrom(s, c, from + 1)

\* s.split(',')
RECURSIVE Split(_)
Split(s) ==
    LET i == IndexFrom(s, ",", 1)
    IN  IF i = 0 THEN <<s>>
        ELSE <<SubSeq(s, 1, i - 1)>> \o Split(SubSeq(s, i + 1, Len(s)))

\* h.match(/:(.*?);/): the first ':' and the first ';' after it
MimeMatch(h) ==
    LET i == IndexFrom(h, ":", 1)
        j == IF i = 0 THEN 0 ELSE IndexFrom(h, ";", i + 1)
    IN  IF j = 0 THEN [found |-> FALSE, group |-> <<>>]
        ELSE [found |-> TRUE, group |-> SubSeq(h, i + 1, j - 1)]

DataUrlParts(m, d) == [kind |-> "parts", mimeType |-> m, data |-> d]
InvalidDataUrl == [kind |-> "Invalid data URL", mimeType |-> <<>>, data |-> <<>>]
NoMimeType == [kind |-> "Could not parse MIME type", mimeType |-> <<>>, data |-> <<>>]

dataUrlToParts(url) ==
    LET arr == Split(url)
        mimeMatch == MimeMatch(arr[1])
    IN  IF Len(arr) < 2 THEN InvalidDataUrl
        ELSE IF ~mimeMatch.found \/ mimeMatch.group = <<>> THEN NoMimeType
        ELSE DataUrlParts(mimeMatch.group, arr[2])

ServiceInit ==
    /\ AppInit
    /\ reply = NoReply
    /\ parts = NoParts
    /\ \/ /\ pc = "provider"
          /\ response \in {Response(br, <<>>) : br \in BlockReasons}
          /\ dataUrl = <<>>
       \/ /\ pc = "response"
          /\ response \in ImageResponses
          /\ dataUrl = <<>>
       \/ /\ pc = "dataUrl"
          /\ response = NoResponse
          /\ dataUrl \in DataUrls

\* the provider adds a candidate, with any finish reason, to its response
AddCandidate ==
    /\ pc = "provider"
    /\ Len(response.candidates) < MaxCandidates
    /\ \E fr \in FinishReasons :
          response' = [response EXCEPT
                          !.candidates = Append(@, Candidate(fr, <<>>))]
    /\ UNCHANGED <<pc, reply, dataUrl, parts, app>>

\* the provider adds a text or an image part to its last candidate
AddPart ==
    /\ pc = "provider"
    /\ response.candidates # <<>>
    /\ PartCount(response.candidates) < MaxParts
    /\ \E p \in {TextPart, ImagePartA, ImagePartB} :
          response' = [response EXCEPT
                          !.candidates[Len(response.candidates)].parts = Append(@, p)]
    /\ UNCHANGED <<pc, reply, dataUrl, parts, app>>

\* generateLogoOnBoxImage / generateAngleVariation: return handleApiResponse(response)
Interpret ==
    /\ pc \in {"provider", "response"}
    /\ reply' = handleApiResponse(response)
    /\ pc' = "interpreted"
    /\ UNCHANGED <<response, dataUrl, parts, app>>

\* generateAngleVariation: dataUrlToPart(boxImageUrl) on a generated image
NormalizeGenerated ==
    /\ pc = "interpreted"
    /\ reply.kind = "image"
    /\ dataUrl' = reply.url
    /\ parts' = dataUrlToParts(reply.url)
    /\ pc' = "normalized"
    /\ UNCHANGED <<response, reply, app>>

\* dataUrlToPart / fileToPart / urlToPart: dataUrlToParts(dataUrl)
Normalize ==
    /\ pc = "dataUrl"
    /\ parts' = dataUrlToParts(dataUrl)
    /\ pc' = "parsed"
    /\ UNCHANGED <<response, reply, dataUrl, app>>

ServiceNext ==
    \/ AddCandidate
    \/ AddPart
    \/ Interpret
    \/ NormalizeGenerated
    \/ Normalize

ServiceSpec == ServiceInit /\ [][ServiceNext]_vars

-----------------------------------------------------------------------------
(* Properties *)

FirstViewKey == ANGLE_INSTRUCTIONS[1]

\* no session is active: no base image and no logo are selected
NoSession(box, logo) == box = Null /\ logo = Null

\* C1: while pending, a Start call or a SelectView call for any view is
\* ignored: it issues no provider request and leaves cache and selectedView
\* as they were.
C1_SingleFlightGate ==
    [][ (isLoading /\ (Start \/ SelectView))
          => /\ requests' = requests
             /\ issued' = issued
             /\ generatedImages' = generatedImages
             /\ currentAngleIndex' = currentAngleIndex ]_vars

\* C2: at most one generation request is outstanding, and pending is true
\* exactly when one is.
C2_OneOutstandingIffPending ==
    /\ Cardinality(requests) <= 1
    /\ isLoading <=> (requests # {})

\* C3: when the request of a cache-miss SelectView(B), accepted with
\* selectedView = A, fails, then afterwards selectedView = A, cache has no
\* entry for B and cache is the cache from just before the attempt.
C3_RollbackCorrectness ==
    [][ \A r \in requests :
          AngleRejected(r)
            => /\ currentAngleIndex' = r.prevAngleIndex
               /\ ~Has(generatedImages', r.angleInstruction)
               /\ generatedImages' = r.cacheAt ]_vars

\* C4: when a Start that was called with no active session fails, the
\* resulting state has no base/logo selection, an empty cache, a recorded
\* lastError and pending false.
C4_InitialFailureUnwind ==
    [][ \A r \in requests :
          (StartRejected(r) /\ NoSession(r.sessionAt[1], r.sessionAt[2]))
            => /\ NoSession(selectedBox', logoFile')
               /\ generatedImages' = <<>>
               /\ error' # Null
               /\ ~isLoading' ]_vars

\* C5: an accepted SelectView(V) for a V that has a cache entry issues no
\* provider request, sets selectedView to V in that step and leaves cache
\* unchanged and pending false.
C5_CacheHit ==
    [][ \A i \in IndexInputs :
          ( /\ handleAngleSelect(i)
            /\ ~AngleSelectIgnored(i)
            /\ Has(generatedImages, AngleAt(i)) )
            => /\ requests' = requests
               /\ issued' = issued
               /\ currentAngleIndex' = i
               /\ generatedImages' = generatedImages
               /\ ~isLoading' ]_vars

\* C5 witness: a view switch served from a cache of several variants
C5_Witness ==
    /\ lastOp.op = "selectHit"
    /\ currentAngleIndex = lastOp.arg
    /\ Len(generatedImages) >= 2
    /\ Has(generatedImages, AngleAt(currentAngleIndex))

\* a successful SelectView(B) changes cache at key B only
AngleOkChangesOnlyTarget ==
    \A r \in requests :
        AngleResolved(r)
          => \A k \in Keys(generatedImages) \cup Keys(generatedImages') :
                k # r.angleInstruction
                  => Get(generatedImages', k) = Get(generatedImages, k)

\* C6 (as stated): once cache[V] holds an image, no step changes or removes
\* it except a Reset or a successful generation that targets exactly V, and a
\* successful SelectView(B) changes cache only at key B.
C6_NoSilentOverwrite_Original ==
    [][ /\ \A k \in Keys(generatedImages) :
              Get(generatedImages', k) # Get(generatedImages, k)
                => \/ Reset
                   \/ \E r \in requests :
                         /\ r.angleInstruction = k
                         /\ StartResolved(r) \/ AngleResolved(r)
        /\ AngleOkChangesOnlyTarget ]_vars

\* C6 (amended): once cache[V] holds an image, no step changes or removes it
\* except a Reset, the success of a Start (which replaces the whole cache by
\* the first view's image) or a successful SelectView that targets exactly V;
\* a successful SelectView(B) changes cache only at key B.
C6_NoSilentOverwrite ==
    [][ /\ \A k \in Keys(generatedImages) :
              Get(generatedImages', k) # Get(generatedImages, k)
                => \/ Reset
                   \/ StartOk
                   \/ \E r \in requests :
                         r.angleInstruction = k /\ AngleResolved(r)
        /\ AngleOkChangesOnlyTarget ]_vars

\* C6 witness: three variants, added one at a time, the last by a success
C6_Witness ==
    /\ lastOp.op = "ok"
    /\ Len(generatedImages) = 3
    /\ generatedImages[3].value = ImageOf(lastOp.id)

\* C7: the displayed image is cache[selectedView] if present, else the
\* first-inserted cache value, else the base image reference, and it is
\* defined whenever cache is non-empty or a base image is selected.
C7_DisplayedImage ==
    LET k == AngleAt(currentAngleIndex) IN
    /\ Has(generatedImages, k)
          => \E i \in DOMAIN generatedImages :
                /\ generatedImages[i].key = k
                /\ displayImageUrl = generatedImages[i].value
    /\ (~Has(generatedImages, k) /\ generatedImages # <<>>)
          => displayImageUrl = Head(generatedImages).value
    /\ (generatedImages = <<>> /\ selectedBox # Null)
          => displayImageUrl = BoxUrl(selectedBox)
    /\ (generatedImages # <<>> \/ selectedBox # Null)
          => displayImageUrl # Undefined

\* C7 witness: a request is pending for an optimistically selected view that
\* has no entry yet, so the first-inserted variant is displayed
C7_Witness ==
    /\ isLoading
    /\ lastOp.op = "selectMiss"
    /\ ~Has(generatedImages, AngleAt(currentAngleIndex))
    /\ Len(generatedImages) >= 2
    /\ displayImageUrl = generatedImages[1].value

\* C8: from the acceptance of a Start until its request completes cache is
\* empty and pending is true; when the request succeeds cache is exactly
\* {firstViewKey: result}, selectedView is the first view and pending is false.
C8_StartResetsAndSeeds ==
    [][ /\ \A r \in requests :
              r.op = "start" => (generatedImages = <<>> /\ isLoading)
        /\ \A r \in requests :
              StartResolved(r)
                => /\ generatedImages'
                        = <<[key |-> FirstViewKey, value |-> ImageOf(r.id)]>>
                   /\ AngleAt(currentAngleIndex') = FirstViewKey
                   /\ ~isLoading' ]_vars

\* C9: Reset, called in any state, produces the pre-Start state: cache empty,
\* selectedView the first view, pending false, no pendingMessage, no
\* lastError and no base/logo selection.
C9_ResetToPreStart ==
    lastOp.op = "reset"
      => /\ generatedImages = <<>>
         /\ AngleAt(currentAngleIndex) = FirstViewKey
         /\ ~isLoading
         /\ loadingMessage = NoMessage
         /\ error = Null
         /\ NoSession(selectedBox, logoFile)

\* C9 witness: a Reset called while a request was outstanding
C9_Witness ==
    /\ lastOp.op = "reset"
    /\ requests # {}
    /\ generatedImages = <<>>
    /\ selectedBox = Null

\* C10: once a generation request has been issued, no Start, SelectView or
\* Reset is accepted (none changes the state) until it has completed.
C10_NoTransitionWhileOutstanding ==
    [][ (requests # {} /\ (Start \/ SelectView \/ Reset))
          => UNCHANGED <<ctl, requests, issued>> ]_vars

-----------------------------------------------------------------------------
(* Properties of the generation calls *)

\* the continuation of request r runs in this step
Completes(r) ==
    StartResolved(r) \/ StartRejected(r) \/ AngleResolved(r) \/ AngleRejected(r)

\* r's continuation runs in this step and removes r without a new call
CompletesOnce(r) ==
    Completes(r) => (requests' = requests \ {r} /\ issued' = issued)

\* a call is made only by a Start or a SelectView, one per step, not yet sent
CallsOnlyOnRequest ==
    issued' # issued
      => /\ Start \/ SelectView
         /\ issued' = issued + 1
         /\ \E r \in requests' :
               r.id = issued' /\ r.sent = 0 /\ requests' = requests \cup {r}

\* C15 (as stated): every accepted Start and cache-miss SelectView issues
\* exactly one provider request, a failed request is never reissued, and a
\* new request happens only on a new Start or SelectView call.
C15_NoRetry_Original ==
    [][ /\ \A r \in requests : Completes(r) => r.sent = 1
        /\ \A r \in requests : CompletesOnce(r)
        /\ \A r \in requests : generateContent(r) => r.sent = 0
        /\ CallsOnlyOnRequest ]_vars

\* C15 (amended): every accepted Start and cache-miss SelectView makes one
\* generation call, which issues at most one provider request: exactly one
\* when it succeeds, and none when it fails before the provider is called;
\* a failed call is never made again, and a new call happens only on a new
\* Start or SelectView.
C15_NoRetry ==
    [][ /\ \A r \in requests :
              /\ StartResolved(r) \/ AngleResolved(r) => r.sent = 1
              /\ StartRejected(r) \/ AngleRejected(r) => r.sent \in {0, 1}
        /\ \A r \in requests : CompletesOnce(r)
        /\ \A r \in requests : generateContent(r) => r.sent = 0
        /\ CallsOnlyOnRequest ]_vars

\* C15 witness: a SelectView failed after its one provider request and
\* nothing is outstanding or was issued again
C15_Witness ==
    /\ lastOp.op = "fail"
    /\ error = "No se pudo cambiar la vista"
    /\ requests = {}
    /\ issued = 2

\* C16: a failed SelectView leaves the base/logo selection and every cached
\* variant unchanged, records lastError and clears pending; a failed Start
\* clears the base/logo selection.
C16_FailureAsymmetry ==
    [][ \A r \in requests :
          /\ AngleRejected(r)
               => /\ UNCHANGED <<selectedBox, logoFile, generatedImages>>
                  /\ error' # Null
                  /\ ~isLoading'
          /\ StartRejected(r) => NoSession(selectedBox', logoFile') ]_vars

\* C16 witness: after a failed SelectView the session is still active and
\* holds the variants generated before
C16_Witness ==
    /\ lastOp.op = "fail"
    /\ error = "No se pudo cambiar la vista"
    /\ ~isLoading
    /\ ~NoSession(selectedBox, logoFile)
    /\ Len(generatedImages) >= 2

\* the Start of the current session: the latest Start since the last Reset
CurrentStartId ==
    LET S == {t.id : t \in {u \in sessionIssued : u.op = "start"}}
    IN  IF S = {} THEN 0 ELSE CHOOSE m \in S : \A n \in S : n <= m

\* C17: on every cache-miss SelectView the base sent for regeneration is the
\* first-inserted cache entry, which is the first view's image produced by
\* the current session's Start, whichever view is selected.
C17_RegeneratesFromStartVariant ==
    [][ \A i \in IndexInputs :
          (handleAngleSelect(i) /\ issued' # issued)
            => LET r == CHOOSE q \in requests' : q.id = issued'
               IN  /\ r.base = generatedImages[1].value
                   /\ generatedImages[1].key = FirstViewKey
                   /\ r.base = ImageOf(CurrentStartId) ]_vars

\* C18: SelectView(target) changes nothing and issues no request when target
\* is the selected view, and when target has no cache entry and the cache is
\* empty or no session is active.
C18_SelectNoOp ==
    [][ \A i \in IndexInputs :
          ( /\ handleAngleSelect(i)
            /\ \/ i = currentAngleIndex
               \/ /\ ~Has(generatedImages, AngleAt(i))
                  /\ generatedImages = <<>> \/ NoSession(selectedBox, logoFile) )
            => UNCHANGED <<ctl, requests, issued>> ]_vars

\* C18 witness: a switch to another view was dropped because the active,
\* idle session has no variant to regenerate from
C18_Witness ==
    /\ lastOp.op = "selectNoBase"
    /\ generatedImages = <<>>
    /\ ~isLoading
    /\ selectedBox # Null

\* C19: when every issued request is eventually answered, pending never
\* stays true forever.
C19_PendingClears == isLoading ~> ~isLoading

\* C19 witness: a request was answered and pending is false again
C19_Witness ==
    /\ lastOp.op \in {"ok", "fail"}
    /\ ~isLoading
    /\ requests = {}
    /\ issued = 2

\* the image was produced by a call made since the last Reset, for the
\* base/logo pairing that is selected now
FromThisSession(v) ==
    \E t \in sessionIssued :
        v = ImageOf(t.id) /\ t.box = selectedBox /\ t.logo = logoFile

\* C20: every cache entry was produced by a request issued after the most
\* recent Reset for the selected base/logo pairing, and the completion of a
\* request issued before a Reset changes nothing in the state after it.
C20_SessionIsolation ==
    [][ /\ \A i \in DOMAIN generatedImages :
              FromThisSession(generatedImages[i].value)
        /\ \A r \in requests :
              (Completes(r) /\ r.id \notin {t.id : t \in sessionIssued})
                => UNCHANGED ctl ]_vars

\* a session is active: a base image and a logo are both selected
SessionActive == selectedBox # Null /\ logoFile # Null

\* C21: whenever a session is active and no generation is pending, the cache
\* has an entry for the first view key and that entry is the first one in
\* insertion order.
C21_FirstViewSeeded ==
    (SessionActive /\ ~isLoading)
        => /\ Has(generatedImages, FirstViewKey)
           /\ availableAngleKeys[1] = FirstViewKey

\* the recognized view keys
ViewKeys == {ANGLE_INSTRUCTIONS[i] : i \in DOMAIN ANGLE_INSTRUCTIONS}

\* C22: whatever index a select was called with, the keys of the cache are
\* recognized view keys (so the cache has at most five entries) and the
\* selected view is a recognized view key.
C22_RecognizedViewsOnly ==
    /\ Keys(generatedImages) \subseteq ViewKeys
    /\ Len(generatedImages) <= NumAngles
    /\ AngleAt(currentAngleIndex) \in ViewKeys

-----------------------------------------------------------------------------
(* Properties of the service helpers *)

Interpreted == pc \in {"interpreted", "normalized"}

HasInline(cand) == \E p \in DOMAIN cand.parts : cand.parts[p].kind = "inlineData"

HasImage(resp) == \E c \in DOMAIN resp.candidates : HasInline(resp.candidates[c])

\* the first inline part of the first candidate that has one
FirstImageOf(resp) ==
    LET cs == resp.candidates
        c == CHOOSE a \in DOMAIN cs :
                 HasInline(cs[a]) /\ \A b \in 1 .. (a - 1) : ~HasInline(cs[b])
        ps == cs[c].parts
        p == CHOOSE a \in DOMAIN ps :
                 /\ ps[a].kind = "inlineData"
                 /\ \A b \in 1 .. (a - 1) : ps[b].kind # "inlineData"
    IN  ps[p]

AbnormalFinish(resp) ==
    /\ resp.candidates # <<>>
    /\ resp.candidates[1].finishReason \notin {Null, "STOP"}

\* C11: the interpreter decides in order, first match wins: a block reason
\* gives BlockedRequestError even if a candidate has an image; else an image
\* in any candidate gives success even if the first candidate's finish reason
\* is not STOP; else a present non-STOP finish reason of the first candidate
\* gives AbnormalCompletionError; else NoImageProducedError.  Exactly one of
\* the four results.
C11_InterpreterClassification ==
    Interpreted =>
        /\ reply.kind \in {"blocked", "image", "abnormal", "noImage"}
        /\ reply.kind = "blocked"
              <=> response.blockReason # Null
        /\ reply.kind = "blocked" => reply.reason = response.blockReason
        /\ reply.kind = "image"
              <=> (response.blockReason = Null /\ HasImage(response))
        /\ reply.kind = "abnormal"
              <=> /\ response.blockReason = Null
                  /\ ~HasImage(response)
                  /\ AbnormalFinish(response)
        /\ reply.kind = "abnormal"
              => reply.reason = response.candidates[1].finishReason
        /\ reply.kind = "noImage"
              <=> /\ response.blockReason = Null
                  /\ ~HasImage(response)
                  /\ ~AbnormalFinish(response)

\* C11 witness: a blocked response that nevertheless carries an image, after
\* an abnormally finished first candidate
C11_Witness ==
    /\ pc = "interpreted"
    /\ response.blockReason # Null
    /\ HasImage(response)
    /\ AbnormalFinish(response)
    /\ reply.kind = "blocked"

\* C12: on success the returned image is the first inline part of the first
\* candidate that has one, its MIME type and payload copied verbatim.
C12_FirstImageReturned ==
    (Interpreted /\ reply.kind = "image")
        => /\ HasImage(response)
           /\ reply.url = DataPrefix \o FirstImageOf(response).mimeType
                             \o Base64Mark \o FirstImageOf(response).data

\* C12 witness: the first candidate has no image, the second has a text part
\* and then two different images, and the first of the two is returned
C12_Witness ==
    /\ pc = "interpreted"
    /\ reply.kind = "image"
    /\ Len(response.candidates) = 2
    /\ ~HasInline(response.candidates[1])
    /\ response.candidates[2].parts = <<TextPart, ImagePartB, ImagePartA>>
    /\ reply.url = DataUrlOf(ImagePartB.mimeType, ImagePartB.data)

\* the header of a data URL names a MIME type: a ':' and, later, a ';' with
\* at least one character between the first ':' and the first ';' after it
HasMimeMarker(h) ==
    \E i \in DOMAIN h :
        /\ h[i] = ":"
        /\ \A k \in 1 .. (i - 1) : h[k] # ":"
        /\ \E j \in DOMAIN h : j > i /\ h[j] = ";"
        /\ i + 1 \in DOMAIN h /\ h[i + 1] # ";"

CommaCount(u) == Cardinality({i \in DOMAIN u : u[i] = ","})

\* C13: normalizing an inline-encoded string fails exactly when it has fewer
\* than two comma-separated segments or its header has no MIME-type marker;
\* otherwise it returns the header's MIME type and the payload segment, and
\* the payload is not empty.
C13_NormalizerFailsExactly ==
    pc = "parsed" =>
        LET header == Split(dataUrl)[1] IN
        /\ parts.kind # "parts"
              <=> (CommaCount(dataUrl) < 1 \/ ~HasMimeMarker(header))
        /\ parts.kind = "parts"
              => /\ parts.mimeType = MimeMatch(header).group
                 /\ parts.data = Split(dataUrl)[2]
                 /\ parts.data # <<>>

\* C14: for every image the interpreter returns, normalizing the returned
\* data URL yields the MIME type and the payload that the provider sent.
C14_PassThroughRoundTrip ==
    pc = "normalized" =>
        /\ parts.kind = "parts"
        /\ parts.mimeType = FirstImageOf(response).mimeType
        /\ parts.data = FirstImageOf(response).data

====
